---- MODULE Spec2Model ----
(***************************************************************************)
(* Model of the law-search proxy handlers:                                 *)
(*   "api"    : src/api/index.js      (target dispatch, HTML scrape)       *)
(*   "legacy" : src/index.js 7-110    (case law only, plain-text detail)   *)
(*   "search" : src/index.js 116-166  (case law only, no detail fetch)     *)
(* One behaviour is one invocation of one handler on one request.          *)
(*                                                                         *)
(* JavaScript strings that the handlers build or inspect are modelled as   *)
(* sequences of tokens: <<>> is the empty string, "SP" and "NL" are        *)
(* whitespace characters, Doctype is the literal '<!DOCTYPE html'.  An     *)
(* object with an absent property is a function whose DOMAIN lacks it.     *)
(* The Korean field names and messages of the source are written here in   *)
(* ASCII; each definition's comment gives the source line of the original. *)
(***************************************************************************)
EXTENDS Naturals, Sequences, FiniteSets

VARIABLES
    handler,      \* which module.exports is invoked
    req,          \* [method, query]: the inbound request (req.method, req.query)
    env,          \* process.env, restricted to LAW_API_KEY
    pc,           \* position of the async handler
    res,          \* [status, body]: the response written so far (status 0: none)
    listFetches,  \* number of axios.get calls on the list-search URL
    listData,     \* searchResponse.data of the list search, <<>> before it arrives
    xmlParses,    \* number of convert.xml2json calls
    precList,     \* the normalised list (precList / lawList)
    slots,        \* per record: the promise of its async mapper and its axios.get
    results,      \* the array Promise.all / map builds, by index
    settleOrder   \* history: the indices of the detail fetches in completion order

vars == <<handler, req, env, pc, res, listFetches, listData, xmlParses,
          precList, slots, results, settleOrder>>

----------------------------------------------------------------------------
(* Bounds *)

MaxRecords == 2

----------------------------------------------------------------------------
(* Strings *)

WS == {"SP", "NL"}
Doctype == "<!DOCTYPE html"

Str(w) == <<w>>

RECURSIVE TrimStart(_)
TrimStart(s) ==
    IF s = <<>> THEN s
    ELSE IF Head(s) \in WS THEN TrimStart(Tail(s)) ELSE s

RECURSIVE TrimEnd(_)
TrimEnd(s) ==
    IF s = <<>> THEN s
    ELSE IF s[Len(s)] \in WS THEN TrimEnd(SubSeq(s, 1, Len(s) - 1)) ELSE s

\* String.prototype.trim
Trim(s) == TrimEnd(TrimStart(s))

\* String.prototype.startsWith('<!DOCTYPE html')
StartsWithDoctype(s) == Len(s) > 0 /\ s[1] = Doctype

\* Variant: the prefix test without the trim.
IsHtmlDocumentUntrimmed(data) == data.type = "string" /\ StartsWithDoctype(data.text)

\* typeof data === 'string' && data.trim().startsWith('<!DOCTYPE html')
IsHtmlDocument(data) == data.type = "string" /\ StartsWithDoctype(Trim(data.text))

\* Length of the longest whitespace run of s starting at position p.
RECURSIVE WsRun(_, _)
WsRun(s, p) ==
    IF p > Len(s) \/ s[p] \notin WS THEN 0 ELSE 1 + WsRun(s, p + 1)

\* Position of the last "NL" of s in p..q, 0 when there is none.
RECURSIVE LastNL(_, _, _)
LastNL(s, p, q) ==
    IF q < p THEN 0
    ELSE IF s[q] = "NL" THEN q ELSE LastNL(s, p, q - 1)

\* text.replace(/\n\s*\n/g, '\n\n'): a newline, a greedy whitespace run and a
\* closing newline become exactly two newlines.
RECURSIVE CollapseFrom(_, _)
CollapseFrom(s, p) ==
    IF p > Len(s) THEN <<>>
    ELSE IF s[p] = "NL" /\ LastNL(s, p + 1, p + WsRun(s, p) - 1) # 0
         THEN <<"NL", "NL">> \o CollapseFrom(s, LastNL(s, p + 1, p + WsRun(s, p) - 1) + 1)
         ELSE <<s[p]>> \o CollapseFrom(s, p + 1)

CollapseBlankLines(s) == CollapseFrom(s, 1)

----------------------------------------------------------------------------
(* JavaScript values *)

\* Variant: the fallback applied to an absent field only (?? instead of ||).
OrDefaultNullish(obj, key, dflt) == IF key \in DOMAIN obj THEN obj[key] ELSE dflt

\* obj.key?._text || dflt   (also obj.key?._cdata || dflt)
OrDefault(obj, key, dflt) ==
    IF key \in DOMAIN obj /\ obj[key] # <<>> THEN obj[key] ELSE dflt

\* !value for a request parameter or an environment variable
Falsy(obj, key) == key \notin DOMAIN obj \/ obj[key] = ""

Without(obj, key) == [k \in DOMAIN obj \ {key} |-> obj[k]]

----------------------------------------------------------------------------
(* Upstream data: what law.go.kr can send back *)

\* Elements of a <prec> record, in source order (api/index.js 64-118,
\* index.js 157): serial number, detail link, case number, case name, court
\* name, case type name, decision date, holding (_cdata), gist (_cdata).
PrecFields ==
    {"precSerialNo", "precDetailLink", "caseNo", "caseName", "court",
     "caseTypeName", "decisionDay", "holding", "gist"}

\* Elements of a <law> record (api/index.js 151-159): detail link, serial
\* number, law name, promulgation number, promulgation date, ministry.
LawFields ==
    {"lawDetailLink", "lawSerialNo", "lawName", "promNo", "promDay", "ministry"}

FullRecord(fields, t) == [f \in fields |-> <<f, t>>]
EmptyRecord(fields) == [f \in fields |-> <<>>]
\* An element that carries none of the expected children.
BareRecord == [_text |-> <<"stray">>]

RecordsOver(fields) ==
    {FullRecord(fields, "1"), FullRecord(fields, "2"), EmptyRecord(fields), BareRecord}
        \cup {Without(FullRecord(fields, "1"), f) : f \in fields}

\* Records a multi-element list is drawn from.
ListRecordsOver(fields, serial, link) ==
    {FullRecord(fields, "1"), FullRecord(fields, "2"), BareRecord,
     Without(FullRecord(fields, "1"), serial),
     Without(FullRecord(fields, "2"), link)}

SeqsOver(S, lo, hi) == UNION {[1..n -> S] : n \in lo..hi}

\* The value of PrecSearch.prec / LawSearch.law after xml2json in compact
\* mode: absent (undefined), one object, or an array of two or more objects.
Absent == [kind |-> "absent", object |-> BareRecord, array |-> <<>>]
OneObject(r) == [kind |-> "object", object |-> r, array |-> <<>>]
Array(s) == [kind |-> "array", object |-> BareRecord, array |-> s]

ElementsOver(fields, serial, link) ==
    {Absent}
        \cup {OneObject(r) : r \in RecordsOver(fields)}
        \cup {Array(s) : s \in SeqsOver(ListRecordsOver(fields, serial, link), 2, MaxRecords)}

XmlDocuments ==
    {[root |-> "PrecSearch", elem |-> "prec", list |-> l] :
        l \in ElementsOver(PrecFields, "precSerialNo", "precDetailLink")}
        \cup {[root |-> "LawSearch", elem |-> "law", list |-> l] :
                l \in ElementsOver(LawFields, "lawSerialNo", "lawDetailLink")}

NoDocument == [root |-> "none", elem |-> "none", list |-> Absent]

\* response.data of the list search.  wellFormed says whether convert.xml2json
\* accepts it; doc is what it then returns.
ListBodies ==
    {[type |-> "string", text |-> <<"<?xml">>, wellFormed |-> TRUE, doc |-> d] :
        d \in XmlDocuments}
        \cup {[type |-> "string", text |-> t, wellFormed |-> w, doc |-> NoDocument] :
                t \in {<<Doctype, "<html>">>, <<"NL", "SP", Doctype, "<html>", "NL">>},
                w \in BOOLEAN}
        \cup {[type |-> "string", text |-> <<"<PrecSearch>", "<prec>">>,
               wellFormed |-> FALSE, doc |-> NoDocument],
              [type |-> "object", text |-> <<>>, wellFormed |-> FALSE, doc |-> NoDocument]}

NoData == [type |-> "none", text |-> <<>>, wellFormed |-> FALSE, doc |-> NoDocument]

\* cheerio's view of a detail page: the text of the elements the selectors
\* match.  cheerio.load always supplies a body.
DetailPages ==
    {[body |-> <<"a", "NL", "SP", "NL", "NL", "b">>,
      divTxtView |-> <<"SP", "NL", "a", "NL", "SP", "NL", "b", "SP">>],
     [body |-> <<"menu", "b">>, divContentView |-> <<"b">>],
     [body |-> <<"c">>],
     [body |-> <<"SP", "NL">>]}

NoPage == [body |-> <<>>]

\* response.data of a detail fetch.
DetailBodies ==
    {[type |-> "string", text |-> <<"SP", Doctype, "<html>">>, page |-> p] : p \in DetailPages}
        \cup {[type |-> "string", text |-> <<"NL", "a", "NL", "NL", "b", "SP">>, page |-> NoPage],
              [type |-> "string", text |-> <<"SP", "NL">>, page |-> NoPage],
              [type |-> "object", text |-> <<>>, page |-> NoPage]}

\* error.message of a rejected axios.get
ErrorMessages == {<<"timeout of 0ms exceeded">>, <<>>}

\* error.message of the TypeError raised by calling a missing method
NotAFunction == <<"is not a function">>
\* error.message of the error convert.xml2json raises on malformed input
ParseError == <<"xml parse error">>

----------------------------------------------------------------------------
(* Messages and fallback strings (ASCII stand-ins for the Korean literals) *)

ErrQueryRequired == Str("query required")                 \* api/index.js 24
ErrKeyMissing(h) ==                                       \* api/index.js 31, index.js 134
    IF h = "search" THEN Str("no API key on the server")
    ELSE Str("server configuration error: API key missing")
ErrInvalidTarget == Str("invalid search target")          \* api/index.js 164
ErrHtmlResponse(h, branch) ==                             \* api/index.js 48, 135; index.js 45
    IF h = "legacy" THEN Str("unexpected HTML response (list search)")
    ELSE IF branch = "law" THEN Str("unexpected HTML response (law list search)")
    ELSE Str("unexpected HTML response (prec list search)")
HtmlResponseDetails == Str("the API key may be invalid")  \* api/index.js 49
ErrFetchFailed(h) ==                                      \* api/index.js 171, index.js 108
    IF h = "api" THEN Str("failed to fetch legal information")
    ELSE Str("failed to fetch case information")

FullTextUnavailable == Str("full text unavailable")       \* api/index.js 66
FullTextNoStructure == Str("full text not extractable")   \* api/index.js 91
FullTextNoContent == Str("full text has no content")      \* api/index.js 95
FullTextUnexpected(h) ==                                  \* api/index.js 103, index.js 76
    IF h = "api" THEN Str("error fetching full text (unexpected API response)")
    ELSE Str("error fetching full text (API response problem)")
FullTextFailedPrefix == Str("failed to fetch full text: ")  \* api/index.js 107

\* Variant: the bare error message as the placeholder.
DetailFailureTextBare(message) == message

\* `...failed: ${detailError.message}`
DetailFailureText(message) == FullTextFailedPrefix \o message

NoNumber == Str("no number")          \* api/index.js 113, 157
NoTitle == Str("no title")            \* api/index.js 114
NoCourt == Str("no court")            \* api/index.js 115
NoType == Str("no type")              \* api/index.js 116
NoDate == Str("no date")              \* api/index.js 117, 158
NoSummary == Str("no summary")        \* api/index.js 118
NoDetail == Str("no detail")          \* index.js 157
NoTitleInfo == Str("no title info")   \* api/index.js 156
NoDepartment == Str("no department")  \* api/index.js 159

----------------------------------------------------------------------------
(* Record mapping *)

\* `https://www.law.go.kr/DRF/lawService.do?OC=${apiKey}&target=prec&ID=${caseId}&type=HTML`
LegacyLink(apiKey, caseId) ==
    <<"https://www.law.go.kr/DRF/lawService.do?OC=", apiKey, "&target=prec&ID=">>
        \o caseId \o <<"&type=HTML">>

\* The object a case-law mapper returns.
FormatPrec(h, apiKey, item, fullText) ==
    IF h = "search"
    THEN [id |-> OrDefault(item, "precSerialNo", <<>>),
          caseNumber |-> OrDefault(item, "caseNo", NoNumber),
          title |-> OrDefault(item, "caseName", NoTitle),
          court |-> OrDefault(item, "court", NoCourt),
          caseType |-> OrDefault(item, "caseTypeName", NoType),
          date |-> OrDefault(item, "decisionDay", NoDate),
          summary |-> OrDefault(item, "holding", NoSummary),
          fullText |-> OrDefault(item, "gist", NoDetail)]
    ELSE [id |-> OrDefault(item, "precSerialNo", <<>>),
          caseNumber |-> OrDefault(item, "caseNo", NoNumber),
          title |-> OrDefault(item, "caseName", NoTitle),
          courtName |-> OrDefault(item, "court", NoCourt),
          caseType |-> OrDefault(item, "caseTypeName", NoType),
          decisionDate |-> OrDefault(item, "decisionDay", NoDate),
          summary |-> OrDefault(item, "holding", NoSummary),
          fullText |-> fullText,
          link |-> IF h = "api" THEN OrDefault(item, "precDetailLink", <<>>)
                   ELSE LegacyLink(apiKey, OrDefault(item, "precSerialNo", <<>>))]

\* The object the statute mapper returns.
FormatLaw(item) ==
    [id |-> OrDefault(item, "lawSerialNo", <<>>),
     title |-> OrDefault(item, "lawName", NoTitleInfo),
     promulgationNumber |-> OrDefault(item, "promNo", NoNumber),
     promulgationDate |-> OrDefault(item, "promDay", NoDate),
     department |-> OrDefault(item, "ministry", NoDepartment),
     link |-> OrDefault(item, "lawDetailLink", <<>>)]

\* Variant: a detail fetch for every record.
NeedsDetailAlways(h, item) == TRUE

\* if (caseId && detailHtmlLink) / if (caseId): the mapper issues a detail fetch
NeedsDetail(h, item) ==
    /\ OrDefault(item, "precSerialNo", <<>>) # <<>>
    /\ h = "api" => OrDefault(item, "precDetailLink", <<>>) # <<>>

\* $('div.txt_view'), else $('div.content_view'), else $('body'); then
\* .text().trim(), blank lines collapsed, trimmed again; '' gives the
\* no-content placeholder.
ScrapeText(page) ==
    LET sel == IF "divTxtView" \in DOMAIN page THEN "divTxtView"
               ELSE IF "divContentView" \in DOMAIN page THEN "divContentView"
               ELSE IF "body" \in DOMAIN page THEN "body"
               ELSE "none"
        extracted == IF sel = "none" THEN FullTextNoStructure
                     ELSE Trim(CollapseBlankLines(Trim(page[sel])))
    IN IF extracted = <<>> THEN FullTextNoContent ELSE extracted

\* fullTextContent after a detail fetch that returned `data`.
FullTextOfReply(h, data) ==
    IF h = "api"
    THEN IF IsHtmlDocument(data) THEN ScrapeText(data.page) ELSE FullTextUnexpected(h)
    ELSE IF IsHtmlDocument(data) THEN FullTextUnexpected(h)
         ELSE IF data.type # "string" THEN DetailFailureText(NotAFunction)
         ELSE IF Trim(data.text) = <<>> THEN FullTextNoContent
         ELSE Trim(data.text)

\* parsed.PrecSearch?.prec / parsed.LawSearch?.law
ElementOf(doc, root, elem) ==
    IF doc.root = root /\ doc.elem = elem THEN doc.list ELSE Absent

\* Variant: a single object is left unwrapped.
NormalizeListNoWrap(list) == IF list.kind = "absent" THEN Array(<<>>) ELSE list

\* let list = X || []; if (list && !Array.isArray(list)) { list = [list]; }
NormalizeList(list) ==
    LET orEmpty == IF list.kind = "absent" THEN Array(<<>>) ELSE list
    IN IF orEmpty.kind # "array" THEN Array(<<orEmpty.object>>) ELSE orEmpty

----------------------------------------------------------------------------
(* The handler *)

Handlers == {"api", "legacy", "search"}
Methods == {"GET", "OPTIONS"}

\* req.query: each of query and target is missing, empty or given.
Queries ==
    {[k \in {} |-> ""]}
        \cup {[query |-> q] : q \in {"", "tax"}}
        \cup {[target |-> t] : t \in {"prec", "law", "etc"}}
        \cup {[query |-> q, target |-> t] : q \in {"", "tax"}, t \in {"prec", "law", "etc"}}

\* process.env: LAW_API_KEY is unset, empty or set.
Environments == {[NODE_ENV |-> "production"]}
    \cup {[NODE_ENV |-> "production", LAW_API_KEY |-> k] : k \in {"", "key"}}

\* Variant: only an absent parameter counts as missing.
QueryMissingUndefinedOnly(q) == "query" \notin DOMAIN q

\* if (!query)
QueryMissing(q) == Falsy(q, "query")

\* Variant: only an unset variable counts as missing.
KeyMissingUndefinedOnly(e) == "LAW_API_KEY" \notin DOMAIN e

\* if (!apiKey)
KeyMissing(e) == Falsy(e, "LAW_API_KEY")

\* Variant: every handler dispatches on target.
BranchAlways(h, q) ==
    IF "target" \in DOMAIN q /\ q.target = "prec" THEN "prec"
    ELSE IF "target" \in DOMAIN q /\ q.target = "law" THEN "law"
    ELSE "invalid"

\* The branch the handler takes: api/index.js dispatches on target (36, 123,
\* 163); the handlers of index.js search case law only.
Branch(h, q) ==
    IF h # "api" THEN "prec"
    ELSE IF "target" \in DOMAIN q /\ q.target = "prec" THEN "prec"
    ELSE IF "target" \in DOMAIN q /\ q.target = "law" THEN "law"
    ELSE "invalid"

NoBody == [end |-> TRUE]
NoResponse == [status |-> 0, body |-> NoBody]
ErrorBody(e) == [error |-> e]
ErrorDetailsBody(e, d) == [error |-> e, details |-> d]

StatusOk == 200
StatusBadRequest == 400
StatusServerError == 500

Pending == [pending |-> TRUE]
NoReply == [type |-> "none", text |-> <<>>, page |-> NoPage]
NoOutcome == [kind |-> "none", data |-> NoReply, message |-> <<>>]
Slot(state, fetches, outcome) == [state |-> state, fetches |-> fetches, outcome |-> outcome]

\* Variant: values collected in completion order.
PlaceAtFirstFree(rs, i, rec) ==
    LET k == CHOOSE k \in DOMAIN rs :
                 rs[k] = Pending /\ \A l \in 1..(k - 1) : rs[l] # Pending
    IN [rs EXCEPT ![k] = rec]

\* Promise.all keeps each mapper's value at the index of its input.
PlaceAt(rs, i, rec) == [rs EXCEPT ![i] = rec]

\* Variant: the response is sent without awaiting the mappers.
CanRespondAtOnce(sl) == TRUE

\* await Promise.all(...): resumes once every mapper's promise is fulfilled.
CanRespond(sl) == \A i \in DOMAIN sl : sl[i].state = "settled"

ApiKey == env["LAW_API_KEY"]

Init ==
    /\ handler \in Handlers
    /\ req \in [method : Methods, query : Queries]
    /\ env \in Environments
    /\ pc = "received"
    /\ res = NoResponse
    /\ listFetches = 0
    /\ listData = NoData
    /\ xmlParses = 0
    /\ precList = <<>>
    /\ slots = <<>>
    /\ results = <<>>
    /\ settleOrder = <<>>

Respond(status, body) ==
    /\ res' = [status |-> status, body |-> body]
    /\ pc' = "done"

\* The handler from its entry to its first await (api/index.js 8-42,
\* index.js 7-38 and 116-139).
Handle ==
    /\ pc = "received"
    /\ IF req.method = "OPTIONS"
       THEN Respond(StatusOk, NoBody) /\ UNCHANGED listFetches
       ELSE IF QueryMissing(req.query)
       THEN Respond(StatusBadRequest, ErrorBody(ErrQueryRequired)) /\ UNCHANGED listFetches
       ELSE IF KeyMissing(env)
       THEN Respond(StatusServerError, ErrorBody(ErrKeyMissing(handler)))
            /\ UNCHANGED listFetches
       ELSE IF Branch(handler, req.query) = "invalid"
       THEN Respond(StatusBadRequest, ErrorBody(ErrInvalidTarget)) /\ UNCHANGED listFetches
       ELSE /\ listFetches' = listFetches + 1
            /\ pc' = "awaitList"
            /\ UNCHANGED res
    /\ UNCHANGED <<handler, req, env, listData, xmlParses, precList, slots, results,
                   settleOrder>>

\* axios.get of the list search rejects: the top-level catch answers.
ListFetchFails ==
    /\ pc = "awaitList"
    /\ \E m \in ErrorMessages :
         Respond(StatusServerError, ErrorDetailsBody(ErrFetchFailed(handler), m))
    /\ UNCHANGED <<handler, req, env, listFetches, listData, xmlParses, precList, slots,
                   results, settleOrder>>

\* The mappers of Promise.all(precList.map(async ...)) up to their first await.
StartMappers(items) ==
    /\ precList' = items
    /\ slots' = [i \in DOMAIN items |->
                   IF NeedsDetail(handler, items[i])
                   THEN Slot("pending", 1, NoOutcome)
                   ELSE Slot("settled", 0, NoOutcome)]
    /\ results' = [i \in DOMAIN items |->
                     IF NeedsDetail(handler, items[i])
                     THEN Pending
                     ELSE FormatPrec(handler, ApiKey, items[i], FullTextUnavailable)]
    /\ pc' = "awaitAll"
    /\ UNCHANGED res

\* The list search returns: HTML check, xml2json, list normalisation, then the
\* branch's mapping (api/index.js 43-63 and 130-167, index.js 39-61 and 140-160).
ListFetchReturns ==
    /\ pc = "awaitList"
    /\ \E data \in ListBodies :
         LET branch == Branch(handler, req.query)
             root == IF branch = "law" THEN "LawSearch" ELSE "PrecSearch"
             elem == IF branch = "law" THEN "law" ELSE "prec"
             list == NormalizeList(ElementOf(data.doc, root, elem))
         IN /\ listData' = data
            /\ IF handler # "search" /\ IsHtmlDocument(data)
               THEN /\ Respond(StatusServerError,
                               ErrorDetailsBody(ErrHtmlResponse(handler, branch),
                                                HtmlResponseDetails))
                    /\ UNCHANGED <<xmlParses, precList, slots, results>>
               ELSE /\ xmlParses' = xmlParses + 1
                    /\ IF ~data.wellFormed
                       THEN /\ Respond(StatusServerError,
                                       ErrorDetailsBody(ErrFetchFailed(handler), ParseError))
                            /\ UNCHANGED <<precList, slots, results>>
                       ELSE IF list.kind # "array"
                       THEN /\ Respond(StatusServerError,
                                       ErrorDetailsBody(ErrFetchFailed(handler), NotAFunction))
                            /\ UNCHANGED <<precList, slots, results>>
                       ELSE IF branch = "law"
                       THEN /\ precList' = list.array
                            /\ results' = [i \in DOMAIN list.array |-> FormatLaw(list.array[i])]
                            /\ Respond(StatusOk, [results |-> results'])
                            /\ UNCHANGED slots
                       ELSE IF handler = "search"
                       THEN /\ precList' = list.array
                            /\ results' = [i \in DOMAIN list.array |->
                                             FormatPrec(handler, ApiKey, list.array[i], <<>>)]
                            /\ Respond(StatusOk, [array |-> results'])
                            /\ UNCHANGED slots
                       ELSE StartMappers(list.array)
    /\ UNCHANGED <<handler, req, env, listFetches, settleOrder>>

\* One detail fetch returns and its mapper runs to its return statement.
DetailFetchReturns ==
    /\ pc = "awaitAll"
    /\ \E i \in DOMAIN slots : \E data \in DetailBodies :
         /\ slots[i].state = "pending"
         /\ slots' = [slots EXCEPT ![i] =
                        Slot("settled", slots[i].fetches,
                             [kind |-> "reply", data |-> data, message |-> <<>>])]
         /\ results' = PlaceAt(results, i,
                               FormatPrec(handler, ApiKey, precList[i],
                                          FullTextOfReply(handler, data)))
         /\ settleOrder' = Append(settleOrder, i)
    /\ UNCHANGED <<handler, req, env, pc, res, listFetches, listData, xmlParses, precList>>

\* One detail fetch rejects: the mapper's own catch turns it into a placeholder.
DetailFetchFails ==
    /\ pc = "awaitAll"
    /\ \E i \in DOMAIN slots : \E m \in ErrorMessages :
         /\ slots[i].state = "pending"
         /\ slots' = [slots EXCEPT ![i] =
                        Slot("settled", slots[i].fetches,
                             [kind |-> "error", data |-> NoReply, message |-> m])]
         /\ results' = PlaceAt(results, i,
                               FormatPrec(handler, ApiKey, precList[i], DetailFailureText(m)))
         /\ settleOrder' = Append(settleOrder, i)
    /\ UNCHANGED <<handler, req, env, pc, res, listFetches, listData, xmlParses, precList>>

\* Promise.all is fulfilled and the handler sends the envelope
\* (api/index.js 167, index.js 104).
SendResults ==
    /\ pc = "awaitAll"
    /\ CanRespond(slots)
    /\ Respond(StatusOk, [results |-> results])
    /\ UNCHANGED <<handler, req, env, listFetches, listData, xmlParses, precList, slots,
                   results, settleOrder>>

Next ==
    \/ Handle
    \/ ListFetchFails
    \/ ListFetchReturns
    \/ DetailFetchReturns
    \/ DetailFetchFails
    \/ SendResults

Spec == Init /\ [][Next]_vars

----------------------------------------------------------------------------
(* Properties *)

Done == pc = "done"
TwoStage == handler \in {"api", "legacy"}
CaseLaw == Branch(handler, req.query) = "prec"
NoQuery == "query" \notin DOMAIN req.query \/ req.query.query = ""
NoKey == "LAW_API_KEY" \notin DOMAIN env \/ env["LAW_API_KEY"] = ""
Enriched == TwoStage /\ CaseLaw /\ Done /\ res.status = 200 /\ "results" \in DOMAIN res.body

\* The text after trimming begins with the document marker.
MarkerFirst(text) ==
    \E k \in 1..Len(text) :
        /\ text[k] = Doctype
        /\ \A j \in 1..(k - 1) : text[j] \in WS

\* The field is missing from the upstream record, or empty.
Lacks(item, f) == f \notin DOMAIN item \/ item[f] = <<>>

\* The i-th record of the upstream list as xml2json delivered it.
UpstreamList == ElementOf(listData.doc, "PrecSearch", "prec")
Upstream(i) ==
    IF UpstreamList.kind = "object" THEN UpstreamList.object ELSE UpstreamList.array[i]

\* The fullText the i-th mapper owes to the outcome of its own fetch alone.
OwnFullText(i) ==
    IF slots[i].outcome.kind = "error"
    THEN FullTextFailedPrefix \o slots[i].outcome.message
    ELSE IF slots[i].outcome.kind = "reply"
    THEN FullTextOfReply(handler, slots[i].outcome.data)
    ELSE FullTextUnavailable

\* C1: a non-OPTIONS request whose query is missing or empty gets 400 with the
\* fixed error body, whatever its target and whether or not the key is set,
\* and no upstream fetch is ever issued for it.
C1_EmptyQueryRejected ==
    (req.method # "OPTIONS" /\ NoQuery) =>
        /\ listFetches = 0
        /\ pc \in {"received", "done"}
        /\ Done => res = [status |-> 400, body |-> [error |-> ErrQueryRequired]]

C1_Witness ==
    /\ Done /\ req.method = "GET" /\ res.status = 400
    /\ "query" \in DOMAIN req.query /\ req.query.query = ""
    /\ "target" \in DOMAIN req.query /\ req.query.target = "law"
    /\ ~NoKey

\* C2 as stated: with the key missing the response is 500 whatever the query,
\* an empty or missing query included.
C2_Original ==
    (req.method # "OPTIONS" /\ NoKey /\ Done) => res.status = 500

\* C2 amended: with the key missing, a non-OPTIONS request with a non-empty
\* query gets 500 and one with a missing or empty query gets 400; either way
\* no upstream fetch is issued.
C2_MissingKeyRejected ==
    (req.method # "OPTIONS" /\ NoKey) =>
        /\ listFetches = 0
        /\ pc \in {"received", "done"}
        /\ Done => IF NoQuery
                   THEN res.status = 400
                   ELSE res = [status |-> 500, body |-> [error |-> ErrKeyMissing(handler)]]

C2_Witness ==
    /\ Done /\ req.method = "GET" /\ ~NoQuery /\ res.status = 500
    /\ "LAW_API_KEY" \in DOMAIN env /\ env["LAW_API_KEY"] = ""

C4_DetailFailureIsLocal ==
    (TwoStage /\ CaseLaw) =>
        \A i \in DOMAIN slots :
            slots[i].outcome.kind = "error" =>
                /\ results[i] # Pending
                /\ results[i].fullText # <<>>
                /\ Head(results[i].fullText) = Head(FullTextFailedPrefix)
                /\ \A j \in DOMAIN slots \ {i} :
                       slots[j].state = "settled" =>
                           results[j] = FormatPrec(handler, ApiKey, precList[j], OwnFullText(j))
                /\ Done => (res.status = 200 /\ res.body = [results |-> results])

C4_Witness ==
    /\ Enriched /\ Len(precList) = 2
    /\ slots[1].outcome.kind = "error" /\ slots[1].outcome.message = <<>>
    /\ slots[2].outcome.kind = "reply" /\ settleOrder = <<1, 2>>
    /\ res.body.results[2].fullText = <<"a", "NL", "NL", "b">>

AllRecords ==
    IF "results" \in DOMAIN res.body THEN res.body.results
    ELSE IF "array" \in DOMAIN res.body THEN res.body.array
    ELSE <<>>

\* C5 as stated: in every record of a 200 response every field, id and link
\* included, is non-empty.
C5_Original ==
    (handler = "api" /\ Done /\ res.status = 200) =>
        \A i \in DOMAIN AllRecords : \A f \in DOMAIN AllRecords[i] : AllRecords[i][f] # <<>>

\* C5 amended: in every record of a 200 response every field other than id and
\* link is present and non-empty (a fallback replaces an absent or empty
\* source field); id is the empty string exactly when the record's serial
\* number is absent or empty, and link is the empty string exactly when the
\* handler is api/index.js and the record's detail link is absent or empty.
C5_FieldsDefaulted ==
    (Done /\ res.status = 200) =>
        \A i \in DOMAIN AllRecords :
            LET rec == AllRecords[i]
                law == Branch(handler, req.query) = "law"
            IN /\ DOMAIN rec =
                    (IF law THEN {"id", "title", "promulgationNumber", "promulgationDate",
                                  "department", "link"}
                     ELSE IF handler = "search"
                     THEN {"id", "caseNumber", "title", "court", "caseType", "date",
                           "summary", "fullText"}
                     ELSE {"id", "caseNumber", "title", "courtName", "caseType",
                           "decisionDate", "summary", "fullText", "link"})
               /\ \A f \in DOMAIN rec \ {"id", "link"} : rec[f] # <<>>
               /\ rec.id = <<>> <=>
                    Lacks(precList[i], IF law THEN "lawSerialNo" ELSE "precSerialNo")
               /\ "link" \in DOMAIN rec =>
                    (rec.link = <<>> <=>
                        /\ handler = "api"
                        /\ Lacks(precList[i], IF law THEN "lawDetailLink" ELSE "precDetailLink"))

C5_Witness ==
    /\ handler = "api" /\ Done /\ res.status = 200 /\ Len(AllRecords) = 1
    /\ "caseName" \in DOMAIN precList[1] /\ precList[1]["caseName"] = <<>>
    /\ AllRecords[1].title = NoTitle
    /\ AllRecords[1].id = <<>>

\* C6: a case-law response has one record per search result and its i-th
\* record is mapped from the i-th search result, in whatever order the detail
\* fetches completed or failed.
C6_OrderPreserved ==
    (Enriched /\ UpstreamList.kind # "absent") =>
        /\ Len(res.body.results) = IF UpstreamList.kind = "object" THEN 1
                                   ELSE Len(UpstreamList.array)
        /\ \A i \in DOMAIN res.body.results :
               res.body.results[i] =
                   FormatPrec(handler, ApiKey, Upstream(i), OwnFullText(i))

C6_Witness ==
    /\ Enriched /\ settleOrder = <<2, 1>>
    /\ precList[1] # precList[2]
    /\ slots[2].outcome.kind = "error" /\ slots[1].outcome.kind = "reply"
    /\ res.body.results[1].id = <<"precSerialNo", "1">>
    /\ res.body.results[2].id = <<"precSerialNo", "2">>

\* C7 as stated: no request with a non-empty query ever receives 400.
C7_Original ==
    (Done /\ res.status = 400) => NoQuery

\* C7 amended: a response is 400 only when the query is missing or empty, or
\* when api/index.js is given a non-empty query, a configured key and a target
\* that is neither 'prec' nor 'law'; a missing key (query given) and every
\* upstream anomaly are answered with 500.
C7_FailureStatus ==
    Done =>
        /\ res.status \in {200, 400, 500}
        /\ res.status = 400 =>
               \/ NoQuery
               \/ /\ handler = "api" /\ ~NoKey
                  /\ ("target" \notin DOMAIN req.query \/ req.query.target \notin {"prec", "law"})
        /\ (req.method # "OPTIONS" /\ ~NoQuery /\ NoKey) => res.status = 500
        /\ (listFetches > 0 /\ res.status # 200) => res.status = 500

C7_Witness ==
    /\ Done /\ res.status = 400 /\ ~NoQuery /\ ~NoKey /\ handler = "api"
    /\ "target" \in DOMAIN req.query /\ req.query.target = "etc"
    /\ res.body = [error |-> ErrInvalidTarget]

\* C8: when the parsed list element is a single object the response is 200
\* with exactly one record, mapped from that object; when the element is
\* absent the response is 200 with no records.
C8_SingleRecordWrapped ==
    LET law == Branch(handler, req.query) = "law"
        list == ElementOf(listData.doc, IF law THEN "LawSearch" ELSE "PrecSearch",
                          IF law THEN "law" ELSE "prec")
    IN (Done /\ xmlParses = 1 /\ listData.wellFormed) =>
           /\ list.kind = "object" =>
                  /\ res.status = 200
                  /\ Len(AllRecords) = 1
                  /\ AllRecords[1] =
                         IF law THEN FormatLaw(list.object)
                         ELSE FormatPrec(handler, ApiKey, list.object,
                                         IF handler = "search" THEN <<>> ELSE OwnFullText(1))
           /\ list.kind = "absent" => (res.status = 200 /\ AllRecords = <<>>)

C8_Witness ==
    /\ Done /\ res.status = 200 /\ handler = "api"
    /\ listData.doc.root = "LawSearch" /\ listData.doc.list.kind = "object"
    /\ Branch(handler, req.query) = "law"
    /\ Len(AllRecords) = 1 /\ AllRecords[1].title = <<"lawName", "2">>

\* C9: when the 200 response of a case-law request is written no detail fetch
\* is pending, and every record in it carries the fullText its own fetch led to.
C9_RespondsAfterAllSettled ==
    Enriched =>
        /\ \A i \in DOMAIN slots : slots[i].state = "settled"
        /\ DOMAIN res.body.results = DOMAIN slots
        /\ \A i \in DOMAIN slots :
               /\ res.body.results[i] # Pending
               /\ res.body.results[i].fullText = OwnFullText(i)

C9_Witness ==
    /\ Enriched /\ Len(settleOrder) = 2
    /\ slots[1].outcome.kind = "reply" /\ slots[2].outcome.kind = "reply"
    /\ res.body.results[1].fullText # res.body.results[2].fullText

\* C10: a request issues at most one list fetch and at most one detail fetch
\* per record, none for a record without its detail reference and none for the
\* statute target; no fetch is issued twice, a failed one included.
C10_NoRetries ==
    /\ listFetches <= 1
    /\ \A i \in DOMAIN slots :
           /\ slots[i].fetches <= 1
           /\ (Lacks(precList[i], "precSerialNo")
                 \/ (handler = "api" /\ Lacks(precList[i], "precDetailLink")))
                  => slots[i].fetches = 0
           /\ slots[i].outcome.kind # "none" => slots[i].fetches = 1
    /\ ~(TwoStage /\ CaseLaw) => slots = <<>>

C10_Witness ==
    /\ Enriched /\ Len(precList) = 2 /\ listFetches = 1
    /\ slots[1].fetches = 1 /\ slots[1].outcome.kind = "error"
    /\ slots[2].fetches = 0 /\ "precDetailLink" \notin DOMAIN precList[2]

====
